---- MODULE Spec2Model ----
(***************************************************************************)
(* Heap allocators of os_rust_demo: the bump allocator (allocator/bump.rs), *)
(* the free-list allocator (allocator/linked_list.rs), the spin-lock       *)
(* wrapper Locked<A> and the alignment helper align_up.                    *)
(*                                                                         *)
(* Addresses and sizes are usize values.  The model keeps the width of a   *)
(* usize but scales it down to UsizeBits bits, so that wrapping arithmetic *)
(* (wrapping_add, checked_add) behaves as in the code.                     *)
(***************************************************************************)
EXTENDS Integers, Sequences, FiniteSets, Bags, TLC

\* ------------------------------------------------------------- bounds
UsizeBits == 16
Modulus == 2 ^ UsizeBits
\* isize::MAX, the largest size a Layout can carry
IsizeMax == (Modulus \div 2) - 1

\* most allocations a caller keeps outstanding at once
MaxLive == 3
\* most blocks the bump allocator hands out between two resets
MaxEpoch == 3
\* the free-list heap starts at NodeAlign * k, k in 1..MaxStartWords
MaxStartWords == 2
\* the free-list heap holds NodeSize + 4 * k bytes, k in 0..MaxHeapQuads
MaxHeapQuads == 14
\* the bump heap holds 1..MaxBumpHeap bytes
MaxBumpHeap == 12
\* calls made after init in a run of the 4096-byte scenario
MaxScenarioCalls == 5
\* align_up is run on the MaxAlignAddr lowest and highest addresses
MaxAlignAddr == 40
\* and on the alignments 2^0 .. 2^MaxAlignLog
MaxAlignLog == 4
\* execution contexts calling into the locked allocator
NumCtx == 2
\* most blocks held or being allocated behind the lock
MaxLockLive == 2
\* bytes of the bump heap behind the lock
LockBumpHeap == 5
\* the free-list heap behind the lock holds NodeSize * LockListNodes bytes
LockListNodes == 3

\* iterations of the allocate-then-release loop
MaxIterations == 4

\* releases made beyond the allocations, on the bump allocator
MaxExtraRelease == 3

\* ------------------------------------------------- program constants
\* ptr::null_mut()
NULL == 0
\* mem::size_of::<ListNode>() and mem::align_of::<ListNode>() on x86_64
NodeSize == 16
NodeAlign == 8

VARIABLES
    heap_start,   \* BumpAllocator.heap_start (free list: init's heap_start)
    heap_end,     \* BumpAllocator.heap_end   (free list: heap_start + heap_size)
    next,         \* BumpAllocator.next
    allocation,   \* BumpAllocator.allocation, the live count
    head,         \* LinkedListAllocator.head.next: the chain of free nodes
    inited,       \* init has been called
    panicked,     \* an assertion of the allocator has failed
    live,         \* bag of the blocks the callers hold: [ptr, size, align]
    last,         \* the last call and what it returned
    epoch,        \* bump: blocks returned since the last reset, in order
    padding,      \* free list: ranges skipped in front of an aligned block
    hist,         \* scenario runs: the calls made since init, in order
    au,           \* align_up runs: the arguments and the outcome
    strategy,     \* the allocator behind Locked: "bump" or "list"
    locked,       \* Locked.inner: the spin::Mutex is held
    ctx,          \* per execution context: the call it is in and its locals
    serial        \* the allocator state had the calls run one after another

bumpVars == <<heap_start, heap_end, next, allocation>>
vars == <<heap_start, heap_end, next, allocation, head, inited, panicked,
          live, last, epoch, padding, hist, au, strategy, locked, ctx, serial>>
lockVars == <<strategy, locked, ctx, serial>>

Layout(size, align) == [size |-> size, align |-> align]
Call(op, size, align, ptr) == [op |-> op, size |-> size, align |-> align, ptr |-> ptr]
Block(ptr, layout) == [ptr |-> ptr, size |-> layout.size, align |-> layout.align]
Node(addr, size) == [addr |-> addr, size |-> size]

\* ------------------------------------------------------------ align_up
\* align_up that rounds an aligned address up as well
align_up_always_rounds(addr, align) ==
    (addr - (addr % align) + align) % Modulus

align_up(addr, align) ==
    LET remainder == addr % align
    IN  IF remainder = 0 THEN addr ELSE (addr - remainder + align) % Modulus

\* addr - remainder + align is computed without overflow
align_up_in_range(addr, align) ==
    addr % align = 0 \/ addr - (addr % align) + align < Modulus

\* ------------------------------------------------------- bump allocator
BumpState == [heap_start |-> heap_start, heap_end |-> heap_end,
              next |-> next, allocation |-> allocation]

bump_init(b, start, size) ==
    [b EXCEPT !.heap_start = start, !.heap_end = start + size, !.next = start]

\* bump_alloc with checked addition: a sum beyond the address space fails
bump_alloc_checked(b, layout) ==
    LET alloc_start == align_up(b.next, layout.align)
        alloc_end == alloc_start + layout.size
    IN  IF alloc_end >= Modulus \/ alloc_end > b.heap_end
        THEN [state |-> b, ptr |-> NULL]
        ELSE [state |-> [b EXCEPT !.next = alloc_end,
                                  !.allocation = (@ + 1) % Modulus],
              ptr |-> alloc_start]

bump_alloc(b, layout) ==
    LET alloc_start == align_up(b.next, layout.align)
        alloc_end == (alloc_start + layout.size) % Modulus
    IN  IF alloc_end > b.heap_end
        THEN [state |-> b, ptr |-> NULL]
        ELSE [state |-> [b EXCEPT !.next = alloc_end,
                                  !.allocation = (@ + 1) % Modulus],
              ptr |-> alloc_start]

\* bump_dealloc with the reset left out
bump_dealloc_no_reset(b) ==
    [b EXCEPT !.allocation = (b.allocation - 1) % Modulus]

\* bump_dealloc that leaves a count of zero alone
bump_dealloc_saturating(b) ==
    IF b.allocation = 0
    THEN [b EXCEPT !.next = b.heap_start]
    ELSE IF b.allocation - 1 <= 0
    THEN [b EXCEPT !.allocation = 0, !.next = b.heap_start]
    ELSE [b EXCEPT !.allocation = b.allocation - 1]

bump_dealloc(b) ==
    LET count == (b.allocation - 1) % Modulus
    IN  IF count <= 0
        THEN [b EXCEPT !.allocation = count, !.next = b.heap_start]
        ELSE [b EXCEPT !.allocation = count]

SetBump(b) ==
    /\ heap_start' = b.heap_start
    /\ heap_end' = b.heap_end
    /\ next' = b.next
    /\ allocation' = b.allocation

BumpStarts == {3, Modulus - 64}
BumpSizes == 1..MaxBumpHeap
BumpLayouts ==
    {Layout(s, a) : s \in {1, 3, 8}, a \in {1, 4}} \cup {Layout(IsizeMax, 1)}

BumpInit(start, size) ==
    /\ ~inited
    /\ inited' = TRUE
    /\ SetBump(bump_init(BumpState, start, size))
    /\ last' = Call("init", size, 1, start)
    /\ UNCHANGED <<live, epoch>>

BumpAlloc(layout) ==
    /\ inited
    /\ BagCardinality(live) < MaxLive
    /\ Len(epoch) < MaxEpoch
    /\ LET r == bump_alloc(BumpState, layout)
       IN  /\ SetBump(r.state)
           /\ last' = Call("alloc", layout.size, layout.align, r.ptr)
           /\ live' = IF r.ptr = NULL THEN live ELSE live (+) SetToBag({Block(r.ptr, layout)})
           /\ epoch' = IF r.ptr = NULL THEN epoch ELSE Append(epoch, Block(r.ptr, layout))
    /\ UNCHANGED inited

BumpDealloc(blk) ==
    /\ inited
    /\ BagIn(blk, live)
    /\ LET b == bump_dealloc(BumpState)
       IN  /\ SetBump(b)
           /\ epoch' = IF b.allocation <= 0 THEN <<>> ELSE epoch
    /\ last' = Call("dealloc", blk.size, blk.align, blk.ptr)
    /\ live' = live (-) SetToBag({blk})
    /\ UNCHANGED inited

NoCall == Call("none", 0, 1, NULL)
NoAlignUp == [addr |-> 0, align |-> 1, state |-> "none", result |-> 0]

InitBump ==
    /\ strategy = "bump" /\ locked = FALSE /\ ctx = <<>> /\ serial = <<>>
    /\ heap_start = 0 /\ heap_end = 0 /\ next = 0 /\ allocation = 0
    /\ head = <<>>
    /\ inited = FALSE /\ panicked = FALSE
    /\ live = EmptyBag /\ last = NoCall /\ epoch = <<>> /\ padding = {}
    /\ hist = <<>>
    /\ au = NoAlignUp

\* what the bump allocator's calls leave alone
BumpFrame == UNCHANGED <<head, panicked, padding, hist, au, lockVars>>

NextBump ==
    \/ \E start \in BumpStarts, size \in BumpSizes : BumpInit(start, size) /\ BumpFrame
    \/ \E layout \in BumpLayouts : BumpAlloc(layout) /\ BumpFrame
    \/ \E blk \in BagToSet(live) : BumpDealloc(blk) /\ BumpFrame

SpecBump == InitBump /\ [][NextBump]_vars

\* ---------------------------------------------------- free-list allocator
\* ListNode::end_addr
end_addr(region) == region.addr + region.size

\* Layout::pad_to_align: the size rounded up to a multiple of the alignment
pad_to_align(size, align) == ((size + align - 1) \div align) * align

size_align(layout) ==
    LET align == IF layout.align > NodeAlign THEN layout.align ELSE NodeAlign
        padded == pad_to_align(layout.size, align)
    IN  [size |-> IF padded > NodeSize THEN padded ELSE NodeSize, align |-> align]

\* alloc_from_region without the test on the size of the leftover
alloc_from_region_any_excess(region, size, align) ==
    LET alloc_start == align_up(region.addr, align)
        alloc_end == alloc_start + size
    IN  IF alloc_end >= Modulus \/ alloc_end > end_addr(region)
        THEN [ok |-> FALSE, alloc_start |-> NULL]
        ELSE [ok |-> TRUE, alloc_start |-> alloc_start]

alloc_from_region(region, size, align) ==
    LET alloc_start == align_up(region.addr, align)
        alloc_end == alloc_start + size
        excess_size == end_addr(region) - alloc_end
    IN  IF alloc_end >= Modulus
        THEN [ok |-> FALSE, alloc_start |-> NULL]
        ELSE IF alloc_end > end_addr(region)
        THEN [ok |-> FALSE, alloc_start |-> NULL]
        ELSE IF excess_size > 0 /\ excess_size < NodeSize
        THEN [ok |-> FALSE, alloc_start |-> NULL]
        ELSE [ok |-> TRUE, alloc_start |-> alloc_start]

\* the list without its i-th node: current.next = region.next
Splice(list, i) == SubSeq(list, 1, i - 1) \o SubSeq(list, i + 1, Len(list))

\* the walk of find_region from the i-th node on
RECURSIVE find_from(_, _, _, _)
find_from(list, i, size, align) ==
    IF i > Len(list)
    THEN [found |-> FALSE, region |-> Node(NULL, 0), alloc_start |-> NULL, rest |-> list]
    ELSE LET r == alloc_from_region(list[i], size, align)
         IN  IF r.ok
             THEN [found |-> TRUE, region |-> list[i], alloc_start |-> r.alloc_start,
                   rest |-> Splice(list, i)]
             ELSE find_from(list, i + 1, size, align)

find_region(list, size, align) == find_from(list, 1, size, align)

\* the two assertions of add_free_region
add_free_region_ok(addr, size) ==
    /\ align_up(addr, NodeAlign) = addr
    /\ size >= NodeSize

\* add_free_region that puts the node at the end of the list
add_free_region_at_tail(list, addr, size) == list \o <<Node(addr, size)>>

\* add_free_region that links the node in although it is on the list already
add_free_region_relinking(list, addr, size) ==
    IF list = <<>> THEN <<Node(addr, size)>> ELSE <<Node(addr, size), list[1]>> \o list

add_free_region(list, addr, size) == <<Node(addr, size)>> \o list

\* ll_alloc with the remainder put back at alloc_start instead of alloc_end
ll_alloc_remainder_at_start(list, layout) ==
    LET sa == size_align(layout)
        fr == find_region(list, sa.size, sa.align)
        alloc_end == fr.alloc_start + sa.size
        excess_size == end_addr(fr.region) - alloc_end
    IN  IF ~fr.found
        THEN [head |-> list, ptr |-> NULL, panic |-> FALSE, pad |-> {}]
        ELSE [head |-> IF excess_size > 0
                       THEN add_free_region(fr.rest, fr.alloc_start, excess_size)
                       ELSE fr.rest,
              ptr |-> fr.alloc_start,
              panic |-> FALSE,
              pad |-> IF fr.alloc_start > fr.region.addr
                      THEN {Node(fr.region.addr, fr.alloc_start - fr.region.addr)}
                      ELSE {}]

\* ll_alloc that, when no node fits, moves the first node to the end
ll_alloc_rotating(list, layout) ==
    LET sa == size_align(layout)
        fr == find_region(list, sa.size, sa.align)
        alloc_end == fr.alloc_start + sa.size
        excess_size == end_addr(fr.region) - alloc_end
    IN  IF ~fr.found
        THEN [head |-> IF list = <<>> THEN list ELSE Tail(list) \o <<list[1]>>,
              ptr |-> NULL, panic |-> FALSE, pad |-> {}]
        ELSE IF excess_size > 0 /\ ~add_free_region_ok(alloc_end, excess_size)
        THEN [head |-> fr.rest, ptr |-> NULL, panic |-> TRUE, pad |-> {}]
        ELSE [head |-> IF excess_size > 0
                       THEN add_free_region(fr.rest, alloc_end, excess_size)
                       ELSE fr.rest,
              ptr |-> fr.alloc_start,
              panic |-> FALSE,
              pad |-> IF fr.alloc_start > fr.region.addr
                      THEN {Node(fr.region.addr, fr.alloc_start - fr.region.addr)}
                      ELSE {}]

\* GlobalAlloc::alloc of Locked<LinkedListAllocator>, lock aside
ll_alloc(list, layout) ==
    LET sa == size_align(layout)
        fr == find_region(list, sa.size, sa.align)
        alloc_end == fr.alloc_start + sa.size
        excess_size == end_addr(fr.region) - alloc_end
    IN  IF ~fr.found
        THEN [head |-> list, ptr |-> NULL, panic |-> FALSE, pad |-> {}]
        ELSE IF excess_size > 0 /\ ~add_free_region_ok(alloc_end, excess_size)
        THEN [head |-> fr.rest, ptr |-> NULL, panic |-> TRUE, pad |-> {}]
        ELSE [head |-> IF excess_size > 0
                       THEN add_free_region(fr.rest, alloc_end, excess_size)
                       ELSE fr.rest,
              ptr |-> fr.alloc_start,
              panic |-> FALSE,
              pad |-> IF fr.alloc_start > fr.region.addr
                      THEN {Node(fr.region.addr, fr.alloc_start - fr.region.addr)}
                      ELSE {}]

\* ll_dealloc with the caller's size, size_align left out
ll_dealloc_unadjusted(list, ptr, layout) ==
    IF add_free_region_ok(ptr, layout.size)
    THEN [head |-> add_free_region(list, ptr, layout.size), panic |-> FALSE]
    ELSE [head |-> list, panic |-> TRUE]

\* ll_dealloc that merges the block with the first node when that node
\* starts where the block ends
ll_dealloc_coalescing(list, ptr, layout) ==
    LET sa == size_align(layout)
    IN  IF list # <<>> /\ list[1].addr = ptr + sa.size
        THEN [head |-> <<Node(ptr, sa.size + list[1].size)>> \o Tail(list),
              panic |-> FALSE]
        ELSE [head |-> add_free_region(list, ptr, sa.size), panic |-> FALSE]

\* GlobalAlloc::dealloc of Locked<LinkedListAllocator>, lock aside
ll_dealloc(list, ptr, layout) ==
    LET sa == size_align(layout)
    IN  IF add_free_region_ok(ptr, sa.size)
        THEN [head |-> add_free_region(list, ptr, sa.size), panic |-> FALSE]
        ELSE [head |-> list, panic |-> TRUE]

ListStarts == {NodeAlign * k : k \in 1..MaxStartWords}
ListSizes == {NodeSize + 4 * k : k \in 0..MaxHeapQuads}
ListLayouts == {Layout(s, a) : s \in {1, 24, 32}, a \in {4, 16}}

LLInit(start, size) ==
    /\ ~inited /\ ~panicked
    /\ inited' = TRUE
    /\ heap_start' = start
    /\ heap_end' = start + size
    /\ IF add_free_region_ok(start, size)
       THEN head' = add_free_region(head, start, size) /\ UNCHANGED panicked
       ELSE panicked' = TRUE /\ UNCHANGED head
    /\ last' = Call("init", size, 1, start)
    /\ UNCHANGED <<live, padding>>

LLAlloc(layout) ==
    /\ inited /\ ~panicked
    /\ BagCardinality(live) < MaxLive
    /\ LET r == ll_alloc(head, layout)
       IN  /\ head' = r.head
           /\ panicked' = r.panic
           /\ padding' = padding \cup r.pad
           /\ last' = Call("alloc", layout.size, layout.align, r.ptr)
           /\ live' = IF r.ptr = NULL THEN live ELSE live (+) SetToBag({Block(r.ptr, layout)})
    /\ UNCHANGED <<inited, heap_start, heap_end>>

LLDealloc(blk) ==
    /\ inited /\ ~panicked
    /\ BagIn(blk, live)
    /\ LET r == ll_dealloc(head, blk.ptr, Layout(blk.size, blk.align))
       IN  /\ head' = r.head
           /\ panicked' = r.panic
    /\ last' = Call("dealloc", blk.size, blk.align, blk.ptr)
    /\ live' = live (-) SetToBag({blk})
    /\ UNCHANGED <<inited, heap_start, heap_end, padding>>

InitList ==
    /\ strategy = "list" /\ locked = FALSE /\ ctx = <<>> /\ serial = <<>>
    /\ heap_start = 0 /\ heap_end = 0 /\ next = 0 /\ allocation = 0
    /\ head = <<>>
    /\ inited = FALSE /\ panicked = FALSE
    /\ live = EmptyBag /\ last = NoCall /\ epoch = <<>> /\ padding = {}
    /\ hist = <<>>
    /\ au = NoAlignUp

\* what the free-list allocator's calls leave alone
ListFrame == UNCHANGED <<next, allocation, epoch, hist, au, lockVars>>

NextList ==
    \/ \E start \in ListStarts, size \in ListSizes : LLInit(start, size) /\ ListFrame
    \/ \E layout \in ListLayouts : LLAlloc(layout) /\ ListFrame
    \/ \E blk \in BagToSet(live) : LLDealloc(blk) /\ ListFrame

SpecList == InitList /\ [][NextList]_vars

\* ------------------------------------------- free-list claims (SpecList)
Adjusted(blk) == size_align(Layout(blk.size, blk.align))
LiveRanges == {Node(blk.ptr, Adjusted(blk).size) : blk \in BagToSet(live)}
Indices(list) == 1..Len(list)
Disjoint(r1, r2) == end_addr(r1) <= r2.addr \/ end_addr(r2) <= r1.addr
Inside(r, lo, hi) == lo <= r.addr /\ end_addr(r) <= hi
Holds(r, x) == r.addr <= x /\ x < end_addr(r)
Sub(r1, r2) == r2.addr <= r1.addr /\ end_addr(r1) <= end_addr(r2)

\* C1: the ranges of the outstanding allocations (with their adjusted sizes)
\* and of the free-list nodes are pairwise disjoint, lie inside the heap
\* range, and cover it except for the alignment padding.
C1_Partition ==
    inited =>
        /\ \A i, j \in Indices(head) : i < j => Disjoint(head[i], head[j])
        /\ \A r1, r2 \in LiveRanges : r1 # r2 => Disjoint(r1, r2)
        /\ \A b1, b2 \in BagToSet(live) : b1 # b2 => b1.ptr # b2.ptr
        /\ \A blk \in BagToSet(live) : CopiesIn(blk, live) = 1
        /\ \A i \in Indices(head) : \A r \in LiveRanges : Disjoint(head[i], r)
        /\ \A p \in padding :
              /\ \A i \in Indices(head) : Disjoint(head[i], p)
              /\ \A r \in LiveRanges : Disjoint(p, r)
        /\ \A i \in Indices(head) : Inside(head[i], heap_start, heap_end)
        /\ \A r \in LiveRanges : Inside(r, heap_start, heap_end)
        /\ \A x \in heap_start..(heap_end - 1) :
              \/ \E i \in Indices(head) : Holds(head[i], x)
              \/ \E r \in LiveRanges : Holds(r, x)
              \/ \E p \in padding : Holds(p, x)

C1_Witness ==
    /\ BagCardinality(live) >= 2
    /\ Len(head) >= 2
    /\ padding # {}
    /\ last.op = "dealloc"

\* C5 as amended: a released block (layout L1) is reused by an immediately
\* following allocate(L2), L2.size <= L1.size and L2.align <= L1.align, when
\* the adjusted size of L2 equals that of L1 or is at least one node footprint
\* smaller.
RoundTrip(l2) ==
    /\ last.op = "dealloc"
    /\ LLAlloc(l2)
    /\ l2.size <= last.size
    /\ l2.align <= last.align

SplitFits(l1, l2) ==
    \/ size_align(l1).size = size_align(l2).size
    \/ size_align(l1).size - size_align(l2).size >= NodeSize

C5_RoundTripAmended ==
    [][\A l2 \in ListLayouts :
          RoundTrip(l2) /\ SplitFits(Layout(last.size, last.align), l2)
              => last'.ptr # NULL]_vars

\* C5 as stated: every such allocate(L2) succeeds.
C5_RoundTripOriginal ==
    [][\A l2 \in ListLayouts : RoundTrip(l2) => last'.ptr # NULL]_vars

\* a smaller block was carved out of the block released just before
C5_Witness ==
    /\ last.op = "alloc"
    /\ last.ptr # NULL
    /\ head # <<>>
    /\ head[1].addr = last.ptr + size_align(Layout(last.size, last.align)).size
    /\ \E l1 \in ListLayouts :
          /\ size_align(l1).size = head[1].size + size_align(Layout(last.size, last.align)).size
          /\ last.size < l1.size
    /\ live = SetToBag({Block(last.ptr, Layout(last.size, last.align))})
    /\ Len(head) >= 2

\* C7: release never merges the released block with a neighbouring free
\* node: it adds exactly one node, the released block; an allocation is served
\* from inside a single node, and fails when every node is smaller than the
\* adjusted request, whatever adjacent nodes add up to.
C7_NoCoalescing ==
    [][/\ \A blk \in BagToSet(live) :
             LLDealloc(blk) => head' = <<Node(blk.ptr, Adjusted(blk).size)>> \o head
       /\ \A l \in ListLayouts :
             LLAlloc(l) =>
                /\ last'.ptr # NULL =>
                      \E i \in Indices(head) :
                          Sub(Node(last'.ptr, size_align(l).size), head[i])
                /\ (\A i \in Indices(head) : head[i].size < size_align(l).size)
                      => last'.ptr = NULL /\ head' = head]_vars

\* two free nodes, adjacent in memory, add up to the request that just failed
C7_Witness ==
    /\ last.op = "alloc"
    /\ last.ptr = NULL
    /\ Len(head) = 2
    /\ end_addr(head[2]) = head[1].addr
    /\ head[1].size + head[2].size = size_align(Layout(last.size, last.align)).size
    /\ live = EmptyBag

\* C15: with init given a node-aligned start and at least a node's size, and
\* releases paired with their allocate layout, every node on the free list
\* has a size of at least the node footprint and a node-aligned address, so
\* neither assertion of add_free_region fails; no split leaves a remainder
\* smaller than a node.
C15_NodesValid ==
    /\ ~panicked
    /\ \A i \in Indices(head) :
          /\ head[i].size >= NodeSize
          /\ head[i].addr % NodeAlign = 0

\* a split has just put its remainder on the list, next to a released block
C15_Witness ==
    /\ last.op = "alloc"
    /\ last.ptr # NULL
    /\ Len(head) >= 2
    /\ head[1].addr = last.ptr + size_align(Layout(last.size, last.align)).size
    /\ head[1].size % NodeAlign # 0

\* the i-th node passes alloc_from_region for the adjusted layout
Fits(i, sa) == alloc_from_region(head[i], sa.size, sa.align).ok

\* C16: a successful allocation is served from the first node, in list order
\* from the head, that passes alloc_from_region; exactly that node leaves the
\* list, the other nodes keep their places relative to each other, and the
\* remainder of the split, if any, becomes the new first node; a released
\* block becomes the new first node in front of the unchanged list.  The
\* list is thus ordered by time of insertion, not by address.
C16_FirstFitOrder ==
    [][/\ \A l \in ListLayouts :
             (LLAlloc(l) /\ last'.ptr # NULL) =>
                 LET sa == size_align(l)
                 IN  \E i \in Indices(head) :
                         /\ Fits(i, sa)
                         /\ \A j \in 1..(i - 1) : ~Fits(j, sa)
                         /\ last'.ptr = align_up(head[i].addr, sa.align)
                         /\ head' =
                               (IF end_addr(head[i]) > last'.ptr + sa.size
                                THEN <<Node(last'.ptr + sa.size,
                                            end_addr(head[i]) - (last'.ptr + sa.size))>>
                                ELSE <<>>) \o Splice(head, i)
       /\ \A blk \in BagToSet(live) :
             LLDealloc(blk) =>
                 /\ head'[1] = Node(blk.ptr, Adjusted(blk).size)
                 /\ Tail(head') = head]_vars

\* the remainder of a split stands in front of two released blocks, and the
\* list runs from the highest address to the lowest
C16_Witness ==
    /\ last.op = "alloc"
    /\ last.ptr # NULL
    /\ Len(head) >= 3
    /\ head[1].addr = last.ptr + size_align(Layout(last.size, last.align)).size
    /\ head[2].addr > head[3].addr
    /\ head[1].addr > head[2].addr

\* C17: when no node passes alloc_from_region for the adjusted layout,
\* allocate returns null, no assertion fails and the free list keeps its
\* nodes, their sizes and their order; whenever some node does pass, after a
\* failed call as at any other time, allocate succeeds.
C17_OutOfMemory ==
    [][\A l \in ListLayouts :
          LLAlloc(l) =>
              IF \E i \in Indices(head) : Fits(i, size_align(l))
              THEN last'.ptr # NULL
              ELSE last'.ptr = NULL /\ head' = head /\ ~panicked']_vars

\* a request has just failed on a list that still has nodes, one of which
\* fits another layout
C17_Witness ==
    /\ last.op = "alloc"
    /\ last.ptr = NULL
    /\ Len(head) >= 2
    /\ BagCardinality(live) < MaxLive
    /\ \E l \in ListLayouts : \E i \in Indices(head) : Fits(i, size_align(l))

\* ------------------- requests aligned to a node at most (SpecConserve)
\* the free-list allocator under layouts whose alignment does not exceed
\* align_of::<ListNode>()
ConserveLayouts == {Layout(s, a) : s \in {1, 20, 32}, a \in {1, NodeAlign}}

NextConserve ==
    \/ \E start \in ListStarts, size \in ListSizes : LLInit(start, size) /\ ListFrame
    \/ \E layout \in ConserveLayouts : LLAlloc(layout) /\ ListFrame
    \/ \E blk \in BagToSet(live) : LLDealloc(blk) /\ ListFrame

SpecConserve == InitList /\ [][NextConserve]_vars

\* the bytes on the free list
RECURSIVE FreeBytes(_)
FreeBytes(list) ==
    IF list = <<>> THEN 0 ELSE Head(list).size + FreeBytes(Tail(list))

\* the bytes taken by the blocks of S, at their adjusted sizes
RECURSIVE HeldBytes(_)
HeldBytes(S) ==
    IF S = {}
    THEN 0
    ELSE LET blk == CHOOSE b \in S : TRUE
         IN  CopiesIn(blk, live) * Adjusted(blk).size + HeldBytes(S \ {blk})

\* C20: when every requested alignment is at most the node alignment, the
\* sizes of the free nodes and the adjusted sizes of the outstanding
\* allocations add up to the heap size given to init, in every state; once
\* everything is released the free nodes alone add up to it.
C20_BytesConserved ==
    inited =>
        /\ ~panicked
        /\ FreeBytes(head) + HeldBytes(BagToSet(live)) = heap_end - heap_start

\* everything has been released and the heap is back on the list in pieces
C20_Witness ==
    /\ last.op = "dealloc"
    /\ live = EmptyBag
    /\ Len(head) >= 3
    /\ FreeBytes(head) = heap_end - heap_start

\* ------------------------------------------------ bump claims (SpecBump)
BlockRange(blk) == Node(blk.ptr, blk.size)

\* C2: the blocks returned since the last full release are pairwise disjoint
\* and every one lies within [heap_start, heap_end).
C2_NoOverlap ==
    inited =>
        /\ \A i \in Indices(epoch) : Inside(BlockRange(epoch[i]), heap_start, heap_end)
        /\ \A i, j \in Indices(epoch) :
              i < j => Disjoint(BlockRange(epoch[i]), BlockRange(epoch[j]))

\* C3: once every allocation has been released, next is back at heap_start
\* and the live count is 0, and an allocation made then, if it succeeds,
\* returns align_up(heap_start, align).
C3_EpochReset ==
    inited =>
        /\ live = EmptyBag => next = heap_start /\ allocation = 0
        /\ (last.op = "alloc" /\ last.ptr # NULL /\ BagCardinality(live) = 1)
              => last.ptr = align_up(heap_start, last.align)

\* the release that brought the live count back to zero has just run
C3_Witness ==
    /\ inited
    /\ last.op = "dealloc"
    /\ live = EmptyBag
    /\ allocation = 0
    /\ next = heap_start

\* C4: an allocate call with align_up(next, align) + size > heap_end returns
\* null and leaves next, live count, heap_start and heap_end as they were.
C4_Exhaustion ==
    [][\A layout \in BumpLayouts :
          (BumpAlloc(layout) /\ align_up(next, layout.align) + layout.size > heap_end)
              => last'.ptr = NULL /\ UNCHANGED bumpVars]_vars

\* C12: while the live count stays above zero next never decreases; next
\* goes down only in the release call that brings the live count to zero, and
\* then to heap_start; so a block allocated while the live count is above
\* zero overlaps no block returned earlier in the epoch, released or not.
C12_NoReuseInEpoch ==
    [][/\ (allocation > 0 /\ allocation' > 0) => next' >= next
       /\ next' < next =>
             /\ last'.op = "dealloc"
             /\ allocation' = 0
             /\ next' = heap_start
       /\ (last'.op = "alloc" /\ last'.ptr # NULL /\ allocation > 0) =>
             \A i \in Indices(epoch) :
                 Disjoint(BlockRange(epoch[i]), Node(last'.ptr, last'.size))]_vars

\* C13: after init, whatever allocate calls (successful or failing) and
\* releases of outstanding blocks have run, heap_start <= next <= heap_end.
C13_NextInHeap ==
    inited => heap_start <= next /\ next <= heap_end

\* C19: alloc_end is alloc_start + size modulo 2^w, and it is the wrapped
\* value that is compared with heap_end: a request whose alloc_start + size
\* reaches 2^w succeeds exactly when the wrapped value is <= heap_end, and
\* then next becomes the wrapped value and the live count goes up by one;
\* alloc_from_region, given the same request on a region that runs from next
\* to the top of the address space, fails.
C19_WrappingBump ==
    [][\A layout \in BumpLayouts :
          LET alloc_start == align_up(next, layout.align)
              wrapped == (alloc_start + layout.size) % Modulus
          IN  (BumpAlloc(layout) /\ alloc_start + layout.size >= Modulus) =>
                  /\ IF wrapped <= heap_end
                     THEN /\ last'.ptr = alloc_start
                          /\ next' = wrapped
                          /\ allocation' = allocation + 1
                     ELSE last'.ptr = NULL /\ UNCHANGED bumpVars
                  /\ ~alloc_from_region(Node(next, Modulus - 1 - next),
                                        layout.size, layout.align).ok]_vars

\* a request that runs past the top of the address space has been granted
C19_Witness ==
    /\ last.op = "alloc"
    /\ last.ptr # NULL
    /\ last.ptr + last.size >= Modulus
    /\ next = (last.ptr + last.size) % Modulus
    /\ next < heap_start
    /\ allocation >= 1

\* ------------------------------ releases beyond the allocations (SpecExtra)
\* dealloc called although no block is outstanding; bump.allocation -= 1 on
\* a count of zero halts in a build with overflow checks and wraps in a
\* build without them
BumpExtraDealloc(blk) ==
    /\ inited /\ ~panicked
    /\ live = EmptyBag
    /\ (Modulus - allocation) % Modulus < MaxExtraRelease
    /\ last' = Call("dealloc", blk.size, blk.align, blk.ptr)
    /\ \/ /\ allocation = 0
          /\ panicked' = TRUE
          /\ UNCHANGED bumpVars
       \/ /\ SetBump(bump_dealloc(BumpState))
          /\ UNCHANGED panicked
    /\ UNCHANGED <<inited, live, epoch>>

\* the frame of the calls that cannot halt
ExtraFrame == ~panicked /\ UNCHANGED <<head, panicked, padding, hist, au, lockVars>>

\* the layouts requested and released in these runs
ExtraLayouts == {Layout(1, 1), Layout(3, 4)}

NextExtra ==
    \/ \E start \in BumpStarts, size \in BumpSizes : BumpInit(start, size) /\ ExtraFrame
    \/ \E layout \in ExtraLayouts : BumpAlloc(layout) /\ ExtraFrame
    \/ \E blk \in BagToSet(live) : BumpDealloc(blk) /\ ExtraFrame
    \/ \E layout \in ExtraLayouts :
          /\ BumpExtraDealloc(Block(heap_start, layout))
          /\ UNCHANGED <<head, padding, hist, au, lockVars>>

SpecExtra == InitBump /\ [][NextExtra]_vars

\* C14: a release made when the live count is 0 is not guarded: either the
\* arithmetic check halts the program with the state untouched, or the count
\* wraps to 2^w - 1 and next is left alone; from then on every release only
\* takes one off the count, and next is reset by none but the release that
\* finds the count at 1, which is 2^w - 1 releases away.
C14_ExtraRelease ==
    [][last'.op = "dealloc" =>
          IF panicked'
          THEN allocation = 0 /\ UNCHANGED bumpVars
          ELSE /\ allocation' = (allocation - 1) % Modulus
               /\ allocation = 0 => allocation' = Modulus - 1 /\ next' = next
               /\ next' = (IF allocation = 1 THEN heap_start ELSE next)
               /\ UNCHANGED <<heap_start, heap_end>>]_vars

\* the count has wrapped, a block allocated since then has been released,
\* and next has not gone back to heap_start
C14_Witness ==
    /\ last.op = "dealloc"
    /\ ~panicked
    /\ live = EmptyBag
    /\ allocation = Modulus - 1
    /\ next > heap_start

\* ------------------------------------ the 4096-byte scenario (SpecScenario)
\* the free-list allocator on a heap of 4096 bytes at address A, under
\* requests of 100 and of 4000 bytes, align 8
ScenarioHeapSize == 4096
ScenarioStarts == {ScenarioHeapSize, 3 * ScenarioHeapSize}
ScenarioLayouts == {Layout(100, 8), Layout(4000, 8)}

\* a call of a scenario run is recorded
Recorded ==
    /\ Len(hist) < MaxScenarioCalls
    /\ hist' = IF last'.op = "init" THEN hist ELSE Append(hist, last')
    /\ UNCHANGED <<next, allocation, epoch, au, lockVars>>

NextScenario ==
    \/ \E start \in ScenarioStarts : LLInit(start, ScenarioHeapSize) /\ Recorded
    \/ \E layout \in ScenarioLayouts : LLAlloc(layout) /\ Recorded
    \/ \E blk \in BagToSet(live) : LLDealloc(blk) /\ Recorded

SpecScenario == InitList /\ [][NextScenario]_vars

IsAlloc(call, size, align) ==
    call.op = "alloc" /\ call.size = size /\ call.align = align

\* allocate(100, 8); allocate(4000, 8); release the first; allocate(4000, 8)
ScenarioRun ==
    /\ Len(hist) >= 4
    /\ IsAlloc(hist[1], 100, 8)
    /\ IsAlloc(hist[2], 4000, 8)
    /\ hist[3] = Call("dealloc", 100, 8, hist[1].ptr)
    /\ IsAlloc(hist[4], 4000, 8)

\* C6 as stated: the first call succeeds at A, the second fails, and after
\* the release allocate(4000, 8) succeeds.
C6_ScenarioOriginal ==
    ScenarioRun =>
        /\ hist[1].ptr = heap_start
        /\ hist[2].ptr = NULL
        /\ hist[4].ptr # NULL

\* C6 as amended: the first call succeeds at A, the second fails, and after
\* the release allocate(4000, 8) fails again: the released 104 bytes are a
\* node of their own in front of the 3992-byte remainder.
C6_ScenarioAmended ==
    ScenarioRun =>
        /\ hist[1].ptr = heap_start
        /\ hist[2].ptr = NULL
        /\ hist[4].ptr = NULL

C6_Witness ==
    /\ ScenarioRun
    /\ Len(hist) = 4
    /\ head = <<Node(heap_start, 104), Node(heap_start + 104, 3992)>>

\* ------------------------------------------------- align_up (SpecAlign)
AlignAddrs == (0..MaxAlignAddr) \cup ((Modulus - MaxAlignAddr)..(Modulus - 1))
AlignAligns == {2 ^ k : k \in 0..MaxAlignLog}

InitAlign ==
    /\ strategy = "bump" /\ locked = FALSE /\ ctx = <<>> /\ serial = <<>>
    /\ heap_start = 0 /\ heap_end = 0 /\ next = 0 /\ allocation = 0
    /\ head = <<>>
    /\ inited = FALSE /\ panicked = FALSE
    /\ live = EmptyBag /\ last = NoCall /\ epoch = <<>> /\ padding = {}
    /\ hist = <<>>
    /\ \E addr \in AlignAddrs, align \in AlignAligns :
          au = [addr |-> addr, align |-> align, state |-> "called", result |-> 0]

\* the call returns
AlignUpReturn ==
    /\ au.state = "called"
    /\ au' = [au EXCEPT !.state = "returned", !.result = align_up(au.addr, au.align)]

\* addr - remainder + align overflows and the build checks arithmetic
AlignUpOverflow ==
    /\ au.state = "called"
    /\ ~align_up_in_range(au.addr, au.align)
    /\ au' = [au EXCEPT !.state = "overflow"]

AlignFrame ==
    UNCHANGED <<heap_start, heap_end, next, allocation, head, inited, panicked,
                live, last, epoch, padding, hist, lockVars>>

NextAlign ==
    \/ AlignUpReturn /\ AlignFrame
    \/ AlignUpOverflow /\ AlignFrame

SpecAlign == InitAlign /\ [][NextAlign]_vars

\* C10: for a power-of-two align, when the sum does not overflow,
\* align_up(address, align) is a multiple of align, is >= address and is
\* < address + align.
C10_AlignUp ==
    (au.state = "returned" /\ align_up_in_range(au.addr, au.align)) =>
        /\ au.result % au.align = 0
        /\ au.result >= au.addr
        /\ au.result < au.addr + au.align

\* an unaligned address has been rounded up
C10_Witness ==
    /\ au.state = "returned"
    /\ au.addr % au.align # 0
    /\ au.result > au.addr
    /\ align_up_in_range(au.addr, au.align)

\* ------------------------------------------------- Locked<A> (SpecLock)
\* Several execution contexts call alloc and dealloc of the locked allocator.
\* A call takes the spin lock, runs its reads and writes of the allocator
\* state one after another, and gives the lock back when the guard is dropped.
Ctx == 1..NumCtx

IdleFrame ==
    [pc |-> "idle", op |-> "none", layout |-> Layout(0, 1), size |-> 0, align |-> 1,
     ptr |-> NULL, alloc_start |-> NULL, alloc_end |-> NULL, region |-> Node(NULL, 0),
     expect |-> NULL]
NewCtx == [cur |-> IdleFrame, saved |-> IdleFrame, nested |-> FALSE]

\* the steps made with the guard alive
GuardedSteps ==
    {"a_read", "a_commit", "a_count", "d_count", "d_reset",
     "l_find", "l_split", "l_insert"}
Holding(c) == ctx[c].cur.pc \in GuardedSteps \cup {"unlock"} \/ ctx[c].nested

\* lock() that returns at once, whoever holds the mutex
CanAcquire_no_wait(c) == c \in Ctx

\* lock() that lets the holder in again
CanAcquire_reentrant(c) == ~locked \/ ctx[c].nested

\* spin::Mutex::lock spins until the mutex is free, for every caller
CanAcquire(c) == ~locked

LockBumpStart == 3
LockListStart == NodeAlign
LockLayouts ==
    IF strategy = "bump"
    THEN {Layout(1, 1), Layout(3, 4)}
    ELSE {Layout(1, 4), Layout(24, 4)}

\* the frame of a call that has reached self.lock(); the free-list calls
\* adjust their layout before that
EnterFrame(op, layout, ptr) ==
    LET sa == IF strategy = "list" THEN size_align(layout) ELSE layout
    IN  [IdleFrame EXCEPT !.pc = "lock", !.op = op, !.layout = layout,
                          !.size = sa.size, !.align = sa.align, !.ptr = ptr]

FirstStep(f) ==
    IF strategy = "bump"
    THEN IF f.op = "alloc" THEN "a_read" ELSE "d_count"
    ELSE IF f.op = "alloc" THEN "l_find" ELSE "l_insert"

\* the call of frame f run in one piece on the state st
SerialCall(st, f) ==
    IF strategy = "bump"
    THEN IF f.op = "alloc"
         THEN LET r == bump_alloc(st.bump, f.layout)
              IN  [state |-> [st EXCEPT !.bump = r.state], ptr |-> r.ptr]
         ELSE [state |-> [st EXCEPT !.bump = bump_dealloc(st.bump)], ptr |-> f.ptr]
    ELSE IF f.op = "alloc"
         THEN LET r == ll_alloc(st.head, f.layout)
              IN  [state |-> [st EXCEPT !.head = r.head], ptr |-> r.ptr]
         ELSE [state |-> [st EXCEPT !.head = ll_dealloc(st.head, f.ptr, f.layout).head],
               ptr |-> f.ptr]

InitLock ==
    /\ strategy \in {"bump", "list"}
    /\ locked = FALSE
    /\ ctx = [c \in Ctx |-> NewCtx]
    /\ heap_start = 0 /\ heap_end = 0 /\ next = 0 /\ allocation = 0
    /\ head = <<>>
    /\ serial = [bump |-> BumpState, head |-> head]
    /\ inited = FALSE /\ panicked = FALSE
    /\ live = EmptyBag /\ last = NoCall /\ epoch = <<>> /\ padding = {}
    /\ hist = <<>>
    /\ au = NoAlignUp

\* ALLOCATOR.lock().init(heap_start, heap_size), once, before any call
LkInit ==
    /\ ~inited /\ ~locked
    /\ inited' = TRUE
    /\ IF strategy = "bump"
       THEN /\ SetBump(bump_init(BumpState, LockBumpStart, LockBumpHeap))
            /\ serial' = [serial EXCEPT
                             !.bump = bump_init(BumpState, LockBumpStart, LockBumpHeap)]
            /\ UNCHANGED head
       ELSE /\ heap_start' = LockListStart
            /\ heap_end' = LockListStart + NodeSize * LockListNodes
            /\ head' = add_free_region(head, LockListStart, NodeSize * LockListNodes)
            /\ serial' = [bump |-> [BumpState EXCEPT
                                       !.heap_start = LockListStart,
                                       !.heap_end = LockListStart
                                                    + NodeSize * LockListNodes],
                          head |-> add_free_region(head, LockListStart,
                                                   NodeSize * LockListNodes)]
            /\ UNCHANGED <<next, allocation>>
    /\ UNCHANGED <<locked, ctx, live, panicked>>

Ready(c, pc) == inited /\ ~panicked /\ ctx[c].cur.pc = pc

\* the calls of alloc that have not returned yet
Allocating == {c \in Ctx : ctx[c].cur.op = "alloc" \/ ctx[c].saved.op = "alloc"}

LkCallAlloc(c, layout) ==
    /\ Ready(c, "idle")
    /\ BagCardinality(live) + Cardinality(Allocating) < MaxLockLive
    /\ ctx' = [ctx EXCEPT ![c].cur = EnterFrame("alloc", layout, NULL)]
    /\ UNCHANGED <<bumpVars, head, locked, serial, live, inited, panicked>>

LkCallDealloc(c, blk) ==
    /\ Ready(c, "idle")
    /\ BagIn(blk, live)
    /\ live' = live (-) SetToBag({blk})
    /\ ctx' = [ctx EXCEPT ![c].cur =
                  EnterFrame("dealloc", Layout(blk.size, blk.align), blk.ptr)]
    /\ UNCHANGED <<bumpVars, head, locked, serial, inited, panicked>>

\* self.lock() returns the guard
LkAcquire(c) ==
    /\ Ready(c, "lock")
    /\ CanAcquire(c)
    /\ locked' = TRUE
    /\ LET r == SerialCall(serial, ctx[c].cur)
       IN  /\ serial' = r.state
           /\ ctx' = [ctx EXCEPT ![c].cur.pc = FirstStep(ctx[c].cur),
                                 ![c].cur.expect = r.ptr]
    /\ UNCHANGED <<bumpVars, head, live, inited, panicked>>

\* bump alloc: alloc_start and alloc_end from bump.next
LkBumpRead(c) ==
    /\ Ready(c, "a_read")
    /\ LET alloc_start == align_up(next, ctx[c].cur.layout.align)
           alloc_end == (alloc_start + ctx[c].cur.layout.size) % Modulus
       IN  ctx' = [ctx EXCEPT ![c].cur.alloc_start = alloc_start,
                              ![c].cur.alloc_end = alloc_end,
                              ![c].cur.pc = "a_commit"]
    /\ UNCHANGED <<bumpVars, head, locked, serial, live, inited, panicked>>

\* bump alloc: the test against heap_end and bump.next = alloc_end
LkBumpCommit(c) ==
    /\ Ready(c, "a_commit")
    /\ IF ctx[c].cur.alloc_end > heap_end
       THEN /\ ctx' = [ctx EXCEPT ![c].cur.ptr = NULL, ![c].cur.pc = "unlock"]
            /\ UNCHANGED next
       ELSE /\ next' = ctx[c].cur.alloc_end
            /\ ctx' = [ctx EXCEPT ![c].cur.pc = "a_count"]
    /\ UNCHANGED <<heap_start, heap_end, allocation, head, locked, serial, live,
                   inited, panicked>>

\* bump alloc: bump.allocation += 1
LkBumpCount(c) ==
    /\ Ready(c, "a_count")
    /\ allocation' = (allocation + 1) % Modulus
    /\ ctx' = [ctx EXCEPT ![c].cur.ptr = ctx[c].cur.alloc_start,
                          ![c].cur.pc = "unlock"]
    /\ UNCHANGED <<heap_start, heap_end, next, head, locked, serial, live,
                   inited, panicked>>

\* bump dealloc: bump.allocation -= 1
LkBumpUncount(c) ==
    /\ Ready(c, "d_count")
    /\ allocation' = (allocation - 1) % Modulus
    /\ ctx' = [ctx EXCEPT ![c].cur.pc = "d_reset"]
    /\ UNCHANGED <<heap_start, heap_end, next, head, locked, serial, live,
                   inited, panicked>>

\* bump dealloc: if bump.allocation <= 0 { bump.next = bump.heap_start }
LkBumpReset(c) ==
    /\ Ready(c, "d_reset")
    /\ next' = IF allocation <= 0 THEN heap_start ELSE next
    /\ ctx' = [ctx EXCEPT ![c].cur.pc = "unlock"]
    /\ UNCHANGED <<heap_start, heap_end, allocation, head, locked, serial, live,
                   inited, panicked>>

\* free-list alloc: find_region searches and detaches
LkListFind(c) ==
    /\ Ready(c, "l_find")
    /\ LET fr == find_region(head, ctx[c].cur.size, ctx[c].cur.align)
       IN  IF fr.found
           THEN /\ head' = fr.rest
                /\ ctx' = [ctx EXCEPT ![c].cur.region = fr.region,
                                      ![c].cur.alloc_start = fr.alloc_start,
                                      ![c].cur.pc = "l_split"]
           ELSE /\ ctx' = [ctx EXCEPT ![c].cur.ptr = NULL, ![c].cur.pc = "unlock"]
                /\ UNCHANGED head
    /\ UNCHANGED <<bumpVars, locked, serial, live, inited, panicked>>

\* free-list alloc: the remainder goes back on the list
LkListSplit(c) ==
    /\ Ready(c, "l_split")
    /\ LET alloc_end == ctx[c].cur.alloc_start + ctx[c].cur.size
           excess_size == end_addr(ctx[c].cur.region) - alloc_end
       IN  IF excess_size > 0 /\ ~add_free_region_ok(alloc_end, excess_size)
           THEN panicked' = TRUE /\ UNCHANGED <<head, ctx>>
           ELSE /\ head' = IF excess_size > 0
                           THEN add_free_region(head, alloc_end, excess_size)
                           ELSE head
                /\ ctx' = [ctx EXCEPT ![c].cur.alloc_end = alloc_end,
                                      ![c].cur.ptr = ctx[c].cur.alloc_start,
                                      ![c].cur.pc = "unlock"]
                /\ UNCHANGED panicked
    /\ UNCHANGED <<bumpVars, locked, serial, live, inited>>

\* free-list dealloc: self.lock().add_free_region(ptr, size)
LkListInsert(c) ==
    /\ Ready(c, "l_insert")
    /\ IF add_free_region_ok(ctx[c].cur.ptr, ctx[c].cur.size)
       THEN /\ head' = add_free_region(head, ctx[c].cur.ptr, ctx[c].cur.size)
            /\ ctx' = [ctx EXCEPT ![c].cur.pc = "unlock"]
            /\ UNCHANGED panicked
       ELSE panicked' = TRUE /\ UNCHANGED <<head, ctx>>
    /\ UNCHANGED <<bumpVars, locked, serial, live, inited>>

\* the guard is dropped and the call returns
LkUnlock(c) ==
    /\ Ready(c, "unlock")
    /\ locked' = FALSE
    /\ live' = IF ctx[c].cur.op = "alloc" /\ ctx[c].cur.ptr # NULL
               THEN live (+) SetToBag({Block(ctx[c].cur.ptr, ctx[c].cur.layout)})
               ELSE live
    /\ ctx' = [ctx EXCEPT ![c] =
                  IF ctx[c].nested
                  THEN [cur |-> ctx[c].saved, saved |-> IdleFrame, nested |-> FALSE]
                  ELSE NewCtx]
    /\ UNCHANGED <<bumpVars, head, serial, inited, panicked>>

\* a context that holds the guard calls alloc on the same allocator
LkReenterAlloc(c, layout) ==
    /\ inited /\ ~panicked
    /\ BagCardinality(live) + Cardinality(Allocating) < MaxLockLive + 1
    /\ ctx[c].cur.pc \in GuardedSteps
    /\ ~ctx[c].nested
    /\ ctx' = [ctx EXCEPT ![c] = [cur |-> EnterFrame("alloc", layout, NULL),
                                  saved |-> ctx[c].cur, nested |-> TRUE]]
    /\ UNCHANGED <<bumpVars, head, locked, serial, live, inited, panicked>>

\* a context that holds the guard calls dealloc on the same allocator
LkReenterDealloc(c, blk) ==
    /\ inited /\ ~panicked
    /\ ctx[c].cur.pc \in GuardedSteps
    /\ ~ctx[c].nested
    /\ BagIn(blk, live)
    /\ live' = live (-) SetToBag({blk})
    /\ ctx' = [ctx EXCEPT ![c] =
                  [cur |-> EnterFrame("dealloc", Layout(blk.size, blk.align), blk.ptr),
                   saved |-> ctx[c].cur, nested |-> TRUE]]
    /\ UNCHANGED <<bumpVars, head, locked, serial, inited, panicked>>

\* what the locked calls leave alone
LockFrame == UNCHANGED <<strategy, last, epoch, padding, hist, au>>

NextLock ==
    \/ LkInit /\ LockFrame
    \/ \E c \in Ctx, layout \in LockLayouts : LkCallAlloc(c, layout) /\ LockFrame
    \/ \E c \in Ctx, blk \in BagToSet(live) : LkCallDealloc(c, blk) /\ LockFrame
    \/ \E c \in Ctx : LkAcquire(c) /\ LockFrame
    \/ \E c \in Ctx : LkBumpRead(c) /\ LockFrame
    \/ \E c \in Ctx : LkBumpCommit(c) /\ LockFrame
    \/ \E c \in Ctx : LkBumpCount(c) /\ LockFrame
    \/ \E c \in Ctx : LkBumpUncount(c) /\ LockFrame
    \/ \E c \in Ctx : LkBumpReset(c) /\ LockFrame
    \/ \E c \in Ctx : LkListFind(c) /\ LockFrame
    \/ \E c \in Ctx : LkListSplit(c) /\ LockFrame
    \/ \E c \in Ctx : LkListInsert(c) /\ LockFrame
    \/ \E c \in Ctx : LkUnlock(c) /\ LockFrame
    \/ \E c \in Ctx, layout \in LockLayouts : LkReenterAlloc(c, layout) /\ LockFrame
    \/ \E c \in Ctx, blk \in BagToSet(live) : LkReenterDealloc(c, blk) /\ LockFrame

SpecLock == InitLock /\ [][NextLock]_vars

\* ------------------------------------------------------------------
\* Claims about the locking wrapper
\* ------------------------------------------------------------------

\* the strategy state as the calls have left it, and as the same calls run
\* one after another in the order of their lock acquisitions leave it
RealState == [bump |-> BumpState, head |-> head]

\* C8: with several contexts calling alloc and dealloc in any interleaving,
\* at most one context is inside the strategy state at a time, every step of
\* a call is made with the mutex held by that one acquisition, and whenever
\* the mutex is free (and when a call has made its last write) the strategy
\* state and the value returned equal those of the calls run sequentially.
C8_Serialized ==
    /\ Cardinality({c \in Ctx : Holding(c)}) <= 1
    /\ locked <=> (\E c \in Ctx : Holding(c))
    /\ ~locked => RealState = serial
    /\ \A c \in Ctx :
          ctx[c].cur.pc = "unlock" =>
              /\ RealState = serial
              /\ ctx[c].cur.ptr = ctx[c].cur.expect

\* one context is half-way through its writes while another waits in lock()
C8_Witness ==
    \E c, d \in Ctx :
        /\ c # d
        /\ ctx[c].cur.pc \in {"a_count", "d_reset", "l_split"}
        /\ ~ctx[c].nested
        /\ RealState # serial
        /\ ctx[d].cur.pc = "lock"

NestedStuck(c) ==
    ctx[c].nested /\ ctx[c].cur.pc = "lock" /\ locked /\ ~panicked

\* C9: a context that calls alloc or dealloc while it holds the guard waits
\* in lock() from then on: the nested call never acquires the mutex and
\* never returns, the outer call never finishes, the strategy state no
\* longer changes, every other context can at most arrive at lock(), and
\* no panic is raised.
C9_ReentrantDeadlock ==
    [][\A c \in Ctx :
          /\ ctx'[c].nested => NestedStuck(c)'
          /\ ctx[c].nested =>
                /\ ctx'[c] = ctx[c]
                /\ UNCHANGED <<bumpVars, head, locked, panicked>>
                /\ \A d \in Ctx :
                      \/ ctx'[d].cur.pc = ctx[d].cur.pc
                      \/ ctx[d].cur.pc = "idle" /\ ctx'[d].cur.pc = "lock"]_vars

\* a nested call waits in lock(), and so does every other context
C9_Witness ==
    /\ \E c \in Ctx : NestedStuck(c) /\ ctx[c].cur.op \in {"alloc", "dealloc"}
    /\ \A d \in Ctx : ctx[d].cur.pc = "lock"

\* ------------------------------------------------------------------
\* The many_boxes loop (tests/heap_alloction.rs): one block of a fixed
\* layout is allocated and released before the next one is allocated
\* ------------------------------------------------------------------
InitBoxes ==
    /\ strategy \in {"bump", "list"}
    /\ locked = FALSE /\ ctx = <<>> /\ serial = <<>>
    /\ heap_start = 0 /\ heap_end = 0 /\ next = 0 /\ allocation = 0
    /\ head = <<>>
    /\ inited = FALSE /\ panicked = FALSE
    /\ live = EmptyBag /\ last = NoCall /\ epoch = <<>> /\ padding = {}
    /\ hist = <<>>
    /\ au = NoAlignUp

\* the calls of the loop are recorded in order
BoxesFrame ==
    /\ hist' = IF last'.op = "init" THEN hist ELSE Append(hist, last')
    /\ UNCHANGED <<au, lockVars>>

BxInit(start, size) ==
    IF strategy = "bump"
    THEN /\ start \in BumpStarts /\ size \in BumpSizes
         /\ BumpInit(start, size)
         /\ UNCHANGED <<head, panicked, padding>>
    ELSE /\ start \in ListStarts /\ size \in ListSizes
         /\ LLInit(start, size)
         /\ UNCHANGED <<next, allocation, epoch>>

\* let x = Box::new(i): the layout is the same in every iteration, and a
\* null return ends the run (the allocation error handler does not return)
BxAlloc(layout) ==
    /\ last.op \in {"init", "dealloc"}
    /\ Len(hist) < 2 * MaxIterations
    /\ hist # <<>> => layout = Layout(hist[1].size, hist[1].align)
    /\ IF strategy = "bump"
       THEN /\ layout \in BumpLayouts
            /\ BumpAlloc(layout)
            /\ UNCHANGED <<head, panicked, padding>>
       ELSE /\ layout \in ListLayouts
            /\ LLAlloc(layout)
            /\ UNCHANGED <<next, allocation, epoch>>

\* x goes out of scope at the end of the loop body
BxDealloc(blk) ==
    /\ last.op = "alloc"
    /\ IF strategy = "bump"
       THEN BumpDealloc(blk) /\ UNCHANGED <<head, panicked, padding>>
       ELSE LLDealloc(blk) /\ UNCHANGED <<next, allocation, epoch>>

NextBoxes ==
    \/ \E start \in BumpStarts \cup ListStarts, size \in BumpSizes \cup ListSizes :
          BxInit(start, size) /\ BoxesFrame
    \/ \E layout \in BumpLayouts \cup ListLayouts : BxAlloc(layout) /\ BoxesFrame
    \/ \E blk \in BagToSet(live) : BxDealloc(blk) /\ BoxesFrame

SpecBoxes == InitBoxes /\ [][NextBoxes]_vars

\* the state one iteration of the loop leaves behind on a fresh heap
AfterFirstIteration(layout) ==
    IF strategy = "bump"
    THEN LET fresh == bump_init([heap_start |-> 0, heap_end |-> 0, next |-> 0,
                                 allocation |-> 0],
                                heap_start, heap_end - heap_start)
         IN  [bump |-> bump_dealloc(bump_alloc(fresh, layout).state), head |-> <<>>]
    ELSE LET fresh == add_free_region(<<>>, heap_start, heap_end - heap_start)
             r == ll_alloc(fresh, layout)
         IN  [bump |-> BumpState, head |-> ll_dealloc(r.head, r.ptr, layout).head]

\* C11: in the allocate-then-release loop on a freshly initialised heap, for
\* either strategy and a layout the fresh heap can serve, every allocation of
\* every iteration succeeds (and returns the block of the first iteration),
\* no assertion fails, and after each iteration next, the live count and the
\* free list are what they were after the first iteration.
C11_ManyBoxes ==
    (hist # <<>> /\ hist[1].ptr # NULL) =>
        /\ ~panicked
        /\ \A i \in Indices(hist) :
              hist[i].op = "alloc" => hist[i].ptr = hist[1].ptr
        /\ (last.op = "dealloc") =>
              [bump |-> BumpState, head |-> head]
                  = AfterFirstIteration(Layout(hist[1].size, hist[1].align))

\* more iterations have run than blocks of the layout fit in the heap
C11_Witness ==
    /\ Len(hist) = 2 * MaxIterations
    /\ last.op = "dealloc"
    /\ hist[1].ptr # NULL
    /\ MaxIterations * hist[1].size > heap_end - heap_start
    /\ 2 * hist[1].size <= heap_end - heap_start

\* ------------------------------------------------------------------
\* The free list behind the lock, callers that do not re-enter, and a
\* processor that keeps running the call that holds the guard
\* ------------------------------------------------------------------
InitChain == InitLock /\ strategy = "list"

\* a step of the call that holds the guard
HolderStep ==
    \E c \in Ctx : LkListFind(c) \/ LkListSplit(c) \/ LkListInsert(c) \/ LkUnlock(c)

NextChain ==
    \/ LkInit /\ LockFrame
    \/ \E c \in Ctx, layout \in LockLayouts : LkCallAlloc(c, layout) /\ LockFrame
    \/ \E c \in Ctx, blk \in BagToSet(live) : LkCallDealloc(c, blk) /\ LockFrame
    \/ \E c \in Ctx : LkAcquire(c) /\ LockFrame
    \/ \E c \in Ctx : LkListFind(c) /\ LockFrame
    \/ \E c \in Ctx : LkListSplit(c) /\ LockFrame
    \/ \E c \in Ctx : LkListInsert(c) /\ LockFrame
    \/ \E c \in Ctx : LkUnlock(c) /\ LockFrame

SpecChain == InitChain /\ [][NextChain]_vars /\ WF_vars(HolderStep /\ LockFrame)

\* the node headers on the list: each is written into the free memory it
\* describes, and holds the link to the next node
Header(node) == Node(node.addr, NodeSize)

\* the list is a chain without a cycle: no node is linked in twice, and no
\* node header shares a byte with another node or with a block in use, so
\* no link is overwritten
ChainAcyclic ==
    /\ \A i, j \in Indices(head) : i < j => Disjoint(head[i], head[j])
    /\ \A i \in Indices(head) : \A r \in LiveRanges : Disjoint(Header(head[i]), r)
    /\ \A i \in Indices(head) : Inside(head[i], heap_start, heap_end)

\* C18: with a single init, no double release and matching layouts, the free
\* list is always a finite chain in which every node occurs once, and every
\* call of a caller that does not re-enter returns once it holds the lock.
C18_ChainTerminates ==
    /\ [](inited => ChainAcyclic /\ ~panicked)
    /\ \A c \in Ctx : (ctx[c].cur.pc \in GuardedSteps) ~> (ctx[c].cur.pc = "idle")

\* a call holds the guard over a list of several nodes while another waits
C18_Witness ==
    /\ \E c \in Ctx : ctx[c].cur.pc = "l_find"
    /\ \E c \in Ctx : ctx[c].cur.pc = "lock"
    /\ Len(head) >= 2

====
